---- MODULE Spec2Model ----
(***************************************************************************)
(* ConceptViz (src/app.py): the self-correcting generation/execution loop. *)
(*                                                                         *)
(* Python strings that the program only passes around (messages, the       *)
(* concept) are TLA+ strings; the text of a model response, which the      *)
(* program edits character by character (replace, strip), is a sequence    *)
(* of characters.  Messages are written without accents.                   *)
(***************************************************************************)
EXTENDS Integers, Sequences, FiniteSets, TLC

VARIABLES
    pc,          \* position of the Streamlit script run
    concept,     \* st.text_input value (line 170)
    api_key,     \* sidebar text input (line 31)
    attempt,     \* line 190
    success,     \* line 191
    last_error,  \* line 192
    code_to_run, \* line 193
    fig,         \* line 206
    ui,          \* elements written to the page, in order
    genCalls,    \* arguments of each get_visualization_code call, in order
    modelCalls,  \* each model.generate_content call of get_visualization_code:
                 \* the prompt handed over and whether text came back or an error
    execCalls,   \* code strings handed to execute_and_render, in order
    host_names,  \* names that executed code has bound in the objects every
                 \* exec shares: the host's builtins and the pd/np/go/px modules
    raw,         \* text of a model response (input of the fence stripping)
    cleaned,     \* result of the fence stripping
    stage        \* position of the fence-stripping run

vars == <<pc, concept, api_key, attempt, success, last_error, code_to_run, fig,
          ui, genCalls, modelCalls, execCalls, host_names, raw, cleaned, stage>>

sessionVars == <<pc, concept, api_key, attempt, success, last_error, code_to_run,
                 fig, ui, genCalls, modelCalls, execCalls>>

textVars == <<raw, cleaned, stage>>

-----------------------------------------------------------------------------
(* Text: str.replace and str.strip as Python computes them.                *)

\* Most pieces a bounded raw response is built from.
MaxPieces == 6

\* the backtick character (the lexer of TLA+ does not accept it in a string)
BT == "BT"
NL == "\n"
SP == " "

Fence == <<BT, BT, BT>>
PyWord == <<"p", "y", "t", "h", "o", "n">>
PyFence == Fence \o PyWord

Whitespace == {NL, SP}

\* s starts with pat
StartsWith(s, pat) ==
    /\ Len(s) >= Len(pat)
    /\ SubSeq(s, 1, Len(pat)) = pat

\* pat occurs in s
Contains(s, pat) ==
    \E i \in 1..(Len(s) - Len(pat) + 1) : SubSeq(s, i, i + Len(pat) - 1) = pat

\* str.replace(pat, empty): one left-to-right pass over non-overlapping matches
RECURSIVE Remove(_, _)
Remove(s, pat) ==
    IF Len(s) < Len(pat) THEN s
    ELSE IF StartsWith(s, pat)
         THEN Remove(SubSeq(s, Len(pat) + 1, Len(s)), pat)
         ELSE <<Head(s)>> \o Remove(Tail(s), pat)

RECURSIVE LStrip(_)
LStrip(s) ==
    IF s # <<>> /\ Head(s) \in Whitespace THEN LStrip(Tail(s)) ELSE s

RECURSIVE RStrip(_)
RStrip(s) ==
    IF s # <<>> /\ s[Len(s)] \in Whitespace
    THEN RStrip(SubSeq(s, 1, Len(s) - 1))
    ELSE s

\* str.strip()
Strip(s) == RStrip(LStrip(s))

\* mutant: the bare fence is removed before the python-tagged one
CleanCode_BareFenceFirst(text) == Strip(Remove(Remove(text, Fence), PyFence))

\* mutant: only the python-tagged fence is removed
CleanCode_PythonFenceOnly(text) == Strip(Remove(text, PyFence))

\* line 130: the python-tagged fence is removed, then the bare fence, then strip()
CleanCode(text) == Strip(Remove(Remove(text, PyFence), Fence))

-----------------------------------------------------------------------------
(* Python values.                                                          *)

\* Python's None; no modelled text equals it
None == "<None>"

\* truth value of a str-or-None (lines 114, 173, 175): None and "" are false
Truthy(x) == x # None /\ x # ""

\* an exception object: its class and the text str() gives for it
Exc(cls, msg) == [cls |-> cls, msg |-> msg]

NoExc == Exc("<no exception>", "")

\* classes that derive from BaseException but not from Exception
BaseOnly == {"SystemExit", "KeyboardInterrupt", "GeneratorExit"}

\* isinstance(e, Exception): what the except clauses of lines 132, 161, 211 catch
IsException(e) == e.cls \notin BaseOnly

\* str(e), also what an f-string puts for {e}
Str(e) == e.msg

\* outcome of a call: a returned value or a raised exception
Return(v) == [kind |-> "return", val |-> v]
Raise(e) == [kind |-> "raise", exc |-> e]

-----------------------------------------------------------------------------
(* What the model service and the generated code can do.                   *)

\* values generated code may bind to a name
FigChart == "go.Figure"
FigInt == "int 1"

\* what a generated script does when exec runs it: the exception it ends with
\* (NoExc when it runs to its end) and the names bound in the local scope
Prog(e, names, v) == [exc |-> e, scope |-> [n \in names |-> v], patches |-> {}]

\* a script that also binds the names in patched on a shared object
\* (import builtins; builtins.leak = 1, or np.leak = 1)
PatchProg(e, names, v, patched) ==
    [exc |-> e, scope |-> [n \in names |-> v], patches |-> patched]

NoProg == Prog(NoExc, {}, None)

Programs ==
    { Prog(NoExc, {"fig"}, FigChart),
      Prog(NoExc, {"fig"}, FigInt),
      Prog(NoExc, {"Fig"}, FigChart),
      Prog(NoExc, {}, None),
      Prog(Exc("NameError", "name 'y' is not defined"), {}, None),
      Prog(Exc("ZeroDivisionError", "division by zero"), {"fig"}, FigChart),
      Prog(Exc("AssertionError", ""), {}, None),
      Prog(Exc("SystemExit", "0"), {}, None),
      PatchProg(NoExc, {}, None, {"leak"}) }

\* raw response texts of a session: fenced with the python tag, and bare
SessionTexts ==
    { PyFence \o <<NL, "x", NL>> \o Fence,
      <<"x">> }

\* failures of model.generate_content / response.text
ModelErrors ==
    { Exc("ResourceExhausted", "429 quota exceeded"),
      Exc("NameError", "name 'model' is not defined") }

\* outcomes of the model call of get_visualization_code: a response whose text
\* denotes (once cleaned) a script with behaviour prog, or an error
ModelOutcomes ==
    [kind : {"text"}, text : SessionTexts, prog : Programs]
    \cup { Raise(e) : e \in ModelErrors }

\* outcomes of the model call of get_explanation
ExplainOutcomes ==
    { [kind |-> "text", text |-> "prose"] } \cup { Raise(e) : e \in ModelErrors }

-----------------------------------------------------------------------------
(* Functions of src/app.py.                                                *)

\* lines 68-78
get_explanation(c, m) ==
    IF m.kind = "text" THEN m.text
    ELSE "Error generando explicacion: " \o Str(m.exc)

\* lines 83-112: the fixed prompt around the concept
BasePrompt(c) ==
    << "Genera un script de Python COMPLETO y EJECUTABLE para visualizar el concepto:",
       c,
       "Reglas ESTRICTAS" >>

PrevFailedText == "INTENTO ANTERIOR FALLO CON ESTE ERROR:"
PleaseCorrectText == "Por favor corrige el codigo para solucionar el error."

\* lines 114-124
BuildPrompt(c, error_context) ==
    IF Truthy(error_context)
    THEN BasePrompt(c) \o <<PrevFailedText, error_context, PleaseCorrectText>>
    ELSE BasePrompt(c)

\* mutant: the error text is returned as if it were code, as get_explanation does
get_visualization_code_ReturnsErrorText(c, error_context, m) ==
    IF m.kind = "text"
    THEN Return([text |-> CleanCode(m.text), prog |-> m.prog])
    ELSE Return([text |-> <<>>, prog |-> NoProg])

\* lines 126-133, given the outcome m of model.generate_content(prompt)
get_visualization_code(c, error_context, m) ==
    IF m.kind = "text"
    THEN Return([text |-> CleanCode(m.text), prog |-> m.prog])
    ELSE Raise(Exc("Exception", "Error generando codigo: " \o Str(m.exc)))

MissingFigMsg == "El codigo ejecutado no genero una variable 'fig'."

\* mutant: the output name is looked up without regard to case
execute_and_render_AnyCase(code_str) ==
    LET local_scope == code_str.prog.scope IN
    IF code_str.prog.exc # NoExc THEN Raise(code_str.prog.exc)
    ELSE IF "fig" \in DOMAIN local_scope THEN Return(local_scope["fig"])
    ELSE IF "Fig" \in DOMAIN local_scope THEN Return(local_scope["Fig"])
    ELSE Raise(Exc("ValueError", MissingFigMsg))

\* lines 135-163: exec into a new local scope, then look up 'fig'; the except
\* clause re-raises what it catches and lets a BaseException pass
execute_and_render(code_str) ==
    LET local_scope == code_str.prog.scope IN
    IF code_str.prog.exc # NoExc THEN Raise(code_str.prog.exc)
    ELSE IF "fig" \in DOMAIN local_scope THEN Return(local_scope["fig"])
    ELSE Raise(Exc("ValueError", MissingFigMsg))

\* lines 146-152: the keys of exec_globals, a dict built anew by every call
ExecGlobals == {"pd", "np", "go", "px", "__builtins__"}

\* the names the code of an execution can resolve beyond its own bindings and
\* the host's standard builtins: the values of exec_globals are the host's own
\* module objects, so what earlier code bound on them is found again
VisibleNames == ExecGlobals \cup host_names

\* line 207: st.plotly_chart accepts a figure and rejects any other object
plotly_chart(f) ==
    IF f = FigChart THEN Return(None)
    ELSE Raise(Exc("PlotlyError",
                   "The figure_or_data positional argument must be dict-like, list-like, or an instance of plotly.graph_objs.Figure"))

\* program constant, line 189
max_retries == 3

-----------------------------------------------------------------------------
(* The script run started by the button (lines 170-220).                   *)

\* values typed into the two text inputs
Concepts == {"", " ", "Normal Distribution"}
Keys == {"", "key"}

\* an element written to the page: st.<kind>, the attempt number it shows
\* (0 when none), its text and, for st.code, the code shown
El(kind, n, text, code) == [kind |-> kind, n |-> n, text |-> text, code |-> code]

EmptyCode == [text |-> <<>>, prog |-> NoProg]

Init ==
    /\ pc = "Idle"
    /\ concept = ""
    /\ api_key = ""
    /\ attempt = 0
    /\ success = FALSE
    /\ last_error = None
    /\ code_to_run = EmptyCode
    /\ fig = None
    /\ ui = <<>>
    /\ genCalls = <<>>
    /\ modelCalls = <<>>
    /\ execCalls = <<>>
    /\ host_names = {}
    /\ raw = <<>>
    /\ cleaned = <<>>
    /\ stage = "unused"

\* lines 172-179: the button handler's guards
Click ==
    /\ pc = "Idle"
    /\ \E c \in Concepts, k \in Keys :
        /\ concept' = c
        /\ api_key' = k
        /\ IF ~Truthy(c)
           THEN /\ ui' = Append(ui, El("error", 0, "Por favor escribe un concepto.", <<>>))
                /\ pc' = "Done"
           ELSE IF ~Truthy(k)
           THEN /\ ui' = Append(ui, El("error", 0,
                        "Por favor configura tu API Key en la barra lateral.", <<>>))
                /\ pc' = "Done"
           ELSE /\ ui' = ui
                /\ pc' = "Explaining"
    /\ UNCHANGED <<attempt, success, last_error, code_to_run, fig,
                   genCalls, modelCalls, execCalls>>
    /\ UNCHANGED textVars
    /\ UNCHANGED host_names

\* mutant: get_explanation without its try/except, the error ends the run
Explain_FailureAborts ==
    /\ pc = "Explaining"
    /\ \E m \in ExplainOutcomes :
        IF m.kind = "text"
        THEN /\ ui' = Append(ui, El("markdown", 0, m.text, <<>>))
             /\ pc' = "Tab2"
        ELSE /\ ui' = ui
             /\ pc' = "Aborted"
    /\ UNCHANGED <<concept, api_key, attempt, success, last_error, code_to_run, fig,
                   genCalls, modelCalls, execCalls>>
    /\ UNCHANGED textVars
    /\ UNCHANGED host_names

\* lines 181-184
Explain ==
    /\ pc = "Explaining"
    /\ \E m \in ExplainOutcomes :
        ui' = Append(ui, El("markdown", 0, get_explanation(concept, m), <<>>))
    /\ pc' = "Tab2"
    /\ UNCHANGED <<concept, api_key, attempt, success, last_error, code_to_run, fig,
                   genCalls, modelCalls, execCalls>>
    /\ UNCHANGED textVars
    /\ UNCHANGED host_names

\* lines 189-195
Tab2Init ==
    /\ pc = "Tab2"
    /\ attempt' = 0
    /\ success' = FALSE
    /\ last_error' = None
    /\ code_to_run' = EmptyCode
    /\ pc' = "LoopTest"
    /\ UNCHANGED <<concept, api_key, fig, ui, genCalls, modelCalls, execCalls>>
    /\ UNCHANGED textVars
    /\ UNCHANGED host_names

\* mutant: one cycle too many
LoopCondition_Inclusive == attempt <= max_retries /\ ~success

\* mutant: one cycle too few
LoopCondition_OneShort == attempt + 1 < max_retries /\ ~success

\* mutant: the success flag is not part of the loop condition
LoopCondition_IgnoresSuccess == attempt < max_retries

\* line 197
LoopCondition == attempt < max_retries /\ ~success

WhileTest ==
    /\ pc = "LoopTest"
    /\ pc' = IF LoopCondition THEN "Generating" ELSE "AfterLoop"
    /\ UNCHANGED <<concept, api_key, attempt, success, last_error, code_to_run, fig,
                   ui, genCalls, modelCalls, execCalls>>
    /\ UNCHANGED textVars
    /\ UNCHANGED host_names

\* mutant: only the first failure's text is kept for the next prompt
ExceptHandler_KeepsFirstError(e, u) ==
    /\ last_error' = IF last_error = None THEN Str(e) ELSE last_error
    /\ ui' = Append(u, El("warning", attempt + 1, Str(e), <<>>))
    /\ attempt' = attempt + 1
    /\ pc' = "LoopTest"

\* mutant: the warning shows the zero-based attempt counter
ExceptHandler_ZeroBasedIndex(e, u) ==
    /\ last_error' = Str(e)
    /\ ui' = Append(u, El("warning", attempt, Str(e), <<>>))
    /\ attempt' = attempt + 1
    /\ pc' = "LoopTest"

\* mutant: the counter goes up twice for one failure
ExceptHandler_DoubleIncrement(e, u) ==
    /\ last_error' = Str(e)
    /\ ui' = Append(u, El("warning", attempt + 1, Str(e), <<>>))
    /\ attempt' = attempt + 2
    /\ pc' = "LoopTest"

\* lines 211-216: the except branch, entered with exception e after the try
\* body has written the page up to u
ExceptHandler(e, u) ==
    /\ last_error' = Str(e)
    /\ ui' = Append(u, El("warning", attempt + 1, Str(e), <<>>))
    /\ attempt' = attempt + 1
    /\ pc' = "LoopTest"

\* lines 199-204
Generate ==
    /\ pc = "Generating"
    /\ \E m \in ModelOutcomes :
        LET u == Append(ui, El("info", attempt + 1, "", <<>>))
            r == get_visualization_code(concept, last_error, m)
        IN  /\ genCalls' = Append(genCalls,
                    [concept |-> concept, error_context |-> last_error])
            /\ modelCalls' = Append(modelCalls,
                    [prompt |-> BuildPrompt(concept, last_error), reply |-> m.kind])
            /\ IF r.kind = "return"
               THEN /\ code_to_run' = r.val
                    /\ ui' = Append(u, El("expander", attempt + 1, "", r.val.text))
                    /\ pc' = "Executing"
                    /\ UNCHANGED <<attempt, last_error>>
               ELSE /\ ExceptHandler(r.exc, u)
                    /\ UNCHANGED code_to_run
    /\ UNCHANGED <<concept, api_key, success, fig, execCalls>>
    /\ UNCHANGED textVars
    /\ UNCHANGED host_names

\* line 206
Execute ==
    /\ pc = "Executing"
    /\ execCalls' = Append(execCalls, code_to_run)
    /\ LET r == execute_and_render(code_to_run) IN
        IF r.kind = "return"
        THEN /\ fig' = r.val
             /\ pc' = "Rendering"
             /\ UNCHANGED <<attempt, last_error, ui>>
        ELSE IF IsException(r.exc)
        THEN /\ ExceptHandler(r.exc, ui)
             /\ UNCHANGED fig
        ELSE \* not caught by line 211: the script run ends here
             /\ pc' = "Aborted"
             /\ UNCHANGED <<attempt, last_error, ui, fig>>
    /\ host_names' = host_names \cup code_to_run.prog.patches
    /\ UNCHANGED <<concept, api_key, success, code_to_run, genCalls, modelCalls>>
    /\ UNCHANGED textVars

\* mutant: the counter goes up on success too
Render_CountsAttempt ==
    /\ pc = "Rendering"
    /\ LET r == plotly_chart(fig) IN
        IF r.kind = "return"
        THEN /\ success' = TRUE
             /\ ui' = ui \o << El("plotly_chart", 0, fig, <<>>),
                               El("success", 0, "Visualizacion generada con exito!", <<>>) >>
             /\ pc' = "LoopTest"
             /\ attempt' = attempt + 1
             /\ UNCHANGED last_error
        ELSE /\ ExceptHandler(r.exc, ui)
             /\ UNCHANGED success
    /\ UNCHANGED <<concept, api_key, code_to_run, fig, genCalls, modelCalls, execCalls>>
    /\ UNCHANGED textVars
    /\ UNCHANGED host_names

\* lines 207-209
Render ==
    /\ pc = "Rendering"
    /\ LET r == plotly_chart(fig) IN
        IF r.kind = "return"
        THEN /\ success' = TRUE
             /\ ui' = ui \o << El("plotly_chart", 0, fig, <<>>),
                               El("success", 0, "Visualizacion generada con exito!", <<>>) >>
             /\ pc' = "LoopTest"
             /\ UNCHANGED <<attempt, last_error>>
        ELSE /\ ExceptHandler(r.exc, ui)
             /\ UNCHANGED success
    /\ UNCHANGED <<concept, api_key, code_to_run, fig, genCalls, modelCalls, execCalls>>
    /\ UNCHANGED textVars
    /\ UNCHANGED host_names

ExhaustedText == "No se pudo generar la visualizacion despues de varios intentos."

\* mutant: the exhaustion report is written whether or not an attempt succeeded
Report_Always ==
    /\ pc = "AfterLoop"
    /\ ui' = ui \o << El("error", 0, ExhaustedText, <<>>),
                      El("error", 0, "Ultimo error: " \o last_error, <<>>) >>
    /\ pc' = "Done"
    /\ UNCHANGED <<concept, api_key, attempt, success, last_error, code_to_run, fig,
                   genCalls, modelCalls, execCalls>>
    /\ UNCHANGED textVars
    /\ UNCHANGED host_names

\* lines 218-220
Report ==
    /\ pc = "AfterLoop"
    /\ ui' = IF ~success
             THEN ui \o << El("error", 0,
                              ExhaustedText, <<>>),
                           El("error", 0, "Ultimo error: " \o last_error, <<>>) >>
             ELSE ui
    /\ pc' = "Done"
    /\ UNCHANGED <<concept, api_key, attempt, success, last_error, code_to_run, fig,
                   genCalls, modelCalls, execCalls>>
    /\ UNCHANGED textVars
    /\ UNCHANGED host_names

\* any later interaction reruns the script from its first line with new
\* locals, in the same Python process
Rerun ==
    /\ pc \in {"Done", "Aborted"}
    /\ pc' = "Idle"
    /\ concept' = ""
    /\ api_key' = ""
    /\ attempt' = 0
    /\ success' = FALSE
    /\ last_error' = None
    /\ code_to_run' = EmptyCode
    /\ fig' = None
    /\ ui' = <<>>
    /\ genCalls' = <<>>
    /\ modelCalls' = <<>>
    /\ execCalls' = <<>>
    /\ UNCHANGED textVars
    /\ UNCHANGED host_names

Next ==
    \/ Click
    \/ Explain
    \/ Tab2Init
    \/ WhileTest
    \/ Generate
    \/ Execute
    \/ Render
    \/ Report
    \/ Rerun

Spec == Init /\ [][Next]_vars

\* the script runs to its end: no step of a run waits on anything but the
\* calls it makes, each of which is taken to return or raise
FairSpec == Spec /\ WF_vars(Next)

-----------------------------------------------------------------------------
(* The cleaning of a model response on its own: every raw text built from  *)
(* at most MaxPieces pieces is handed to get_visualization_code as the     *)
(* text of the model's response.                                           *)

Pieces == { Fence, <<BT>>, PyWord, <<"p", "y">>, <<"x">>, <<NL>> }

RECURSIVE TextsOf(_)
TextsOf(k) ==
    IF k = 0 THEN { <<>> }
    ELSE LET T == TextsOf(k - 1) IN T \cup { t \o p : t \in T, p \in Pieces }

RawTexts == TextsOf(MaxPieces)

FenceInit ==
    /\ pc = "Idle"
    /\ concept = ""
    /\ api_key = ""
    /\ attempt = 0
    /\ success = FALSE
    /\ last_error = None
    /\ code_to_run = EmptyCode
    /\ fig = None
    /\ ui = <<>>
    /\ genCalls = <<>>
    /\ modelCalls = <<>>
    /\ execCalls = <<>>
    /\ host_names = {}
    /\ raw \in RawTexts
    /\ cleaned = <<>>
    /\ stage = "response"

\* lines 127-131 on the response text raw
CleanResponse ==
    /\ stage = "response"
    /\ LET r == get_visualization_code("Normal Distribution", None,
                    [kind |-> "text", text |-> raw, prog |-> NoProg])
       IN cleaned' = r.val.text
    /\ stage' = "returned"
    /\ UNCHANGED raw
    /\ UNCHANGED sessionVars
    /\ UNCHANGED host_names

FenceNext == CleanResponse

FenceSpec == FenceInit /\ [][FenceNext]_vars

-----------------------------------------------------------------------------
(* What a run has shown, read off the page and the call logs.              *)

\* the st.warning elements: one per failed attempt
Warnings == SelectSeq(ui, LAMBDA e : e.kind = "warning")

\* the outcome shown for each attempt, oldest first: a warning for a failed
\* attempt, the chart for the successful one
Records == SelectSeq(ui, LAMBDA e : e.kind \in {"warning", "plotly_chart"})

\* the button's guards let the run through to the tabs
Admitted == Truthy(concept) /\ Truthy(api_key)

\* the two ends of the retry loop
Succeeded == pc = "Done" /\ Admitted /\ success
Exhausted == pc = "Done" /\ Admitted /\ ~success

\* attempt 1 got code from the generator and handed it to the executor
FirstAttemptExecuted ==
    /\ Len(execCalls) >= 1
    /\ \E i \in 1..Len(ui) : ui[i].kind = "expander" /\ ui[i].n = 1

-----------------------------------------------------------------------------
(* C1 *)

C2_FeedbackPropagation ==
    \A k \in 1..Len(genCalls) :
        IF k = 1 THEN genCalls[k].error_context = None
        ELSE /\ Len(Warnings) >= k - 1
             /\ Warnings[k - 1].n = k - 1
             /\ genCalls[k].error_context = Warnings[k - 1].text

C2_Witness ==
    /\ Len(genCalls) = 3
    /\ Warnings[1].text # Warnings[2].text
    /\ genCalls[3].error_context = Warnings[2].text

\* C3: a run in which no attempt succeeded ends after exactly max_retries
\* attempts, with max_retries records, all failures in attempt order, and the
\* last element on the page reports the reason of attempt max_retries.
C3_AllFailExhausted ==
    Exhausted =>
        /\ attempt = max_retries
        /\ Len(genCalls) = max_retries
        /\ Len(Records) = max_retries
        /\ \A k \in 1..max_retries :
              Records[k].kind = "warning" /\ Records[k].n = k
        /\ ui[Len(ui)] = El("error", 0, "Ultimo error: " \o Records[max_retries].text, <<>>)
        /\ last_error = Records[max_retries].text

C3_Witness ==
    /\ Exhausted
    /\ Records[1].text # Records[max_retries].text
    /\ Records[2].text # Records[max_retries].text

\* what the run shows when attempt 1 is the successful one
OneAttemptSuccess ==
    /\ attempt = 0
    /\ Len(Warnings) = 0
    /\ Len(genCalls) = 1
    /\ Len(execCalls) = 1
    /\ \A i \in 1..Len(ui) : ui[i].kind # "error"
    /\ pc = "Done" =>
          /\ success
          /\ Len(Records) = 1
          /\ Records[1].kind = "plotly_chart"

C5_SuccessAtK ==
    Succeeded =>
        LET k == Len(genCalls) IN
        /\ k \in 1..max_retries
        /\ attempt = k - 1
        /\ Len(Records) = k
        /\ \A i \in 1..(k - 1) : Records[i].kind = "warning" /\ Records[i].n = i
        /\ Records[k].kind = "plotly_chart"

\* the scenario of the spec: no fig in attempt 1, a chart in attempt 2
C5_Witness ==
    /\ Succeeded
    /\ Len(genCalls) = 2
    /\ Records[1].text = MissingFigMsg
    /\ genCalls[2].error_context = MissingFigMsg
    /\ Records[2].kind = "plotly_chart"

\* the messages get_visualization_code raises with (line 133)
GenErrorTexts == { "Error generando codigo: " \o Str(e) : e \in ModelErrors }

\* attempt k failed in the generation call: it has a warning and showed no code
GenFailed(k) ==
    /\ \E i \in 1..Len(ui) : ui[i].kind = "warning" /\ ui[i].n = k
    /\ \A i \in 1..Len(ui) : ~(ui[i].kind = "expander" /\ ui[i].n = k)

\* text t occurs in prompt p (the empty text occurs in every prompt)
PromptHas(p, t) == t = "" \/ \E i \in 1..Len(p) : p[i] = t

\* C6: a generation call whose model call fails is handled by the loop as
\* a failed attempt (the counter goes up by one, a warning with the error's
\* message is shown, nothing is executed, the loop goes on), and that message
\* is the error_context and part of the prompt of the next generation call.
C6_GenerationErrorIsFailure ==
    /\ [][ (pc = "Generating" /\ Len(modelCalls') > Len(modelCalls)
                                 /\ modelCalls'[Len(modelCalls')].reply = "raise") =>
              /\ pc' = "LoopTest"
              /\ attempt' = attempt + 1
              /\ last_error' \in GenErrorTexts
              /\ Warnings' = Append(Warnings, El("warning", attempt + 1, last_error', <<>>))
              /\ execCalls' = execCalls ]_vars
    /\ [](\A k \in 2..Len(genCalls) :
              GenFailed(k - 1) =>
                  /\ genCalls[k].error_context \in GenErrorTexts
                  /\ genCalls[k].error_context = Warnings[k - 1].text
                  /\ PromptHas(modelCalls[k].prompt, Warnings[k - 1].text)
                  /\ PromptHas(modelCalls[k].prompt, PrevFailedText))

C6_Witness ==
    /\ Len(genCalls) >= 2
    /\ modelCalls[1].reply = "raise"
    /\ GenFailed(1)
    /\ genCalls[2].error_context \in GenErrorTexts

\* C7: whatever the executed code raises, the run is never left through an
\* uncaught exception, and the raise is shown as a failed attempt with the
\* text of the exception.
C7_ExecErrorsBecomeFailures ==
    /\ pc # "Aborted"
    /\ pc \in {"LoopTest", "AfterLoop", "Done"} =>
          \A k \in 1..Len(execCalls) :
              LET r == execute_and_render(execCalls[k]) IN
              r.kind = "raise" =>
                  \E i \in 1..Len(Warnings) : Warnings[i].text = Str(r.exc)

\* C8: an execution step hands a value to the renderer exactly when the code
\* ran to its end and its local scope binds the name fig; the value is the one
\* bound, whatever it is; code that ran to its end without binding fig fails
\* the attempt with the missing-output message.
C8_SuccessIffFigBound ==
    [][ pc = "Executing" =>
          LET p == code_to_run.prog
              bound == p.exc = NoExc /\ "fig" \in DOMAIN p.scope
          IN  /\ (pc' = "Rendering") <=> bound
              /\ bound => fig' = p.scope["fig"]
              /\ (p.exc = NoExc /\ "fig" \notin DOMAIN p.scope) =>
                    /\ pc' = "LoopTest"
                    /\ last_error' = MissingFigMsg ]_vars

\* fig = 1 was accepted by the executor
C8_Witness ==
    /\ pc = "Rendering"
    /\ fig = FigInt
    /\ code_to_run.prog.scope["fig"] = FigInt

\* language tags a fenced response may carry
Tags == { <<>>, PyWord, <<"p", "y">> }

\* t is a fence with tag, a newline, a body, a newline and a fence
IsWrapped(t, tag) ==
    /\ Len(t) >= Len(Fence) + Len(tag) + 1 + 1 + Len(Fence)
    /\ StartsWith(t, Fence \o tag \o <<NL>>)
    /\ SubSeq(t, Len(t) - Len(Fence), Len(t)) = <<NL>> \o Fence

\* the body X of a wrapped text
Body(t, tag) == SubSeq(t, Len(Fence) + Len(tag) + 2, Len(t) - Len(Fence) - 1)

\* C9 as claimed: a body wrapped in fences, with any tag or none, comes back
\* as exactly the body, and a response without fence markers comes back
\* unchanged.
C9_FenceStripping ==
    stage = "returned" =>
        /\ \A tag \in Tags : IsWrapped(raw, tag) => cleaned = Body(raw, tag)
        /\ ~Contains(raw, Fence) => cleaned = raw

\* C9 amended: a body that holds no triple backtick and neither starts nor
\* ends with whitespace, wrapped in fences with no tag or the tag python,
\* comes back as exactly the body; a response without fence markers comes
\* back with its leading and trailing whitespace removed, so unchanged when it
\* has none.
C9_PythonFenceStripping ==
    stage = "returned" =>
        /\ \A tag \in { <<>>, PyWord } :
              (/\ IsWrapped(raw, tag)
               /\ ~Contains(Body(raw, tag), Fence)
               /\ Strip(Body(raw, tag)) = Body(raw, tag))
              => cleaned = Body(raw, tag)
        /\ ~Contains(raw, Fence) => cleaned = Strip(raw)
        /\ (~Contains(raw, Fence) /\ Strip(raw) = raw) => cleaned = raw

C9_Witness ==
    /\ stage = "returned"
    /\ raw = PyFence \o <<NL, "x", NL>> \o Fence
    /\ cleaned = <<"x">>

\* C10: the prompt of the first generation call carries no correction
\* instruction, and the prompt of every later call carries the instruction and
\* the reason of the failure before it.
C10_PromptCarriesReason ==
    \A k \in 1..Len(modelCalls) :
        IF k = 1
        THEN /\ ~PromptHas(modelCalls[k].prompt, PrevFailedText)
             /\ ~PromptHas(modelCalls[k].prompt, PleaseCorrectText)
        ELSE /\ PromptHas(modelCalls[k].prompt, Warnings[k - 1].text)
             /\ PromptHas(modelCalls[k].prompt, PrevFailedText)
             /\ PromptHas(modelCalls[k].prompt, PleaseCorrectText)


\* the concept is empty or holds whitespace only
IsBlank(c) == c \in {"", " "}

\* the st.markdown elements: what get_explanation returned
Explanations == SelectSeq(ui, LAMBDA e : e.kind = "markdown")

\* the texts get_explanation can return
ExplanationTexts ==
    { "prose" } \cup { "Error generando explicacion: " \o Str(e) : e \in ModelErrors }

\* C11: a run whose concept is empty or whitespace-only ends at the button's
\* guard: it never reaches the explanation call or a code-generation call.
C11_BlankConceptRejected ==
    (pc # "Idle" /\ IsBlank(concept)) =>
        /\ pc = "Done"
        /\ Len(Explanations) = 0
        /\ Len(genCalls) = 0
        /\ Len(modelCalls) = 0

\* C12: the explanation step never ends the run: whatever the model call
\* does, it writes one text (the prose, or the error message) and goes on to
\* the second tab, without a second try and without touching the retry
\* state; the retry loop then starts from attempt = 0, no error, no success,
\* no code and empty call logs, whatever the explanation was.
C12_ExplanationNeverRaises ==
    /\ [][ pc = "Explaining" =>
              /\ pc' = "Tab2"
              /\ Len(ui') = Len(ui) + 1
              /\ ui'[Len(ui')].kind = "markdown"
              /\ ui'[Len(ui')].text \in ExplanationTexts
              /\ UNCHANGED <<attempt, success, last_error, code_to_run,
                             genCalls, modelCalls, execCalls>> ]_vars
    /\ [](Len(Explanations) <= 1)
    /\ []((pc = "LoopTest" /\ Len(genCalls) = 0) =>
              /\ attempt = 0
              /\ last_error = None
              /\ ~success
              /\ code_to_run = EmptyCode
              /\ Len(modelCalls) = 0
              /\ Len(execCalls) = 0
              /\ Len(ui) = 1
              /\ Len(Explanations) = 1)

\* the explanation failed and the loop still came to a successful end
C12_Witness ==
    /\ Succeeded
    /\ Len(Explanations) = 1
    /\ Explanations[1].text # "prose"
    /\ Len(genCalls) = 1

\* C13: when the code of an attempt starts, the names it can resolve beyond
\* its own are those of the capability set alone: nothing that the code of an
\* earlier attempt, of this run or of an earlier one, has bound.
C13_FreshScopePerAttempt ==
    pc = "Executing" => VisibleNames = ExecGlobals

\* the exhaustion reports on the page
ExhaustionReports == SelectSeq(ui, LAMBDA e : e = El("error", 0, ExhaustedText, <<>>))

\* the charts on the page
Charts == SelectSeq(ui, LAMBDA e : e.kind = "plotly_chart")

\* C14: the step in which an attempt fails writes exactly one warning, with
\* the attempt's number (1, 2, ... in order) and its reason, and no other step
\* writes one; the exhaustion report is on the page at most once, exactly in
\* the runs that ended without success, after every warning, and is followed
\* by the reason of the last failed attempt.
C14_FailuresReportedOnce ==
    /\ [][ attempt' = attempt + 1 =>
              Warnings' = Append(Warnings, El("warning", attempt + 1, last_error', <<>>)) ]_vars
    /\ [][ Len(Warnings') > Len(Warnings) => attempt' = attempt + 1 ]_vars
    /\ [](/\ Len(Warnings) = attempt
          /\ \A i \in 1..Len(Warnings) : Warnings[i].n = i
          /\ Len(ExhaustionReports) <= 1
          /\ Len(ExhaustionReports) = 1 <=> Exhausted
          /\ Len(ExhaustionReports) = 1 =>
                /\ Len(Charts) = 0
                /\ ui[Len(ui) - 1] = El("error", 0, ExhaustedText, <<>>)
                /\ ui[Len(ui)] = El("error", 0,
                        "Ultimo error: " \o Warnings[Len(Warnings)].text, <<>>))

\* both kinds of end were preceded by failures with different reasons
C14_Witness ==
    /\ Exhausted
    /\ Len(ExhaustionReports) = 1
    /\ Len(Warnings) = max_retries
    /\ Warnings[2].text # Warnings[3].text

\* the last execution returned a value
ExecReturned ==
    /\ Len(execCalls) >= 1
    /\ execute_and_render(execCalls[Len(execCalls)]).kind = "return"

\* ... and st.plotly_chart accepts that value
ExecAccepted ==
    /\ ExecReturned
    /\ plotly_chart(execute_and_render(execCalls[Len(execCalls)]).val).kind = "return"

\* from here the run only goes on to its successful end
StraightToSucceeded ==
    /\ pc' \in {"LoopTest", "AfterLoop", "Done"}
    /\ attempt' = attempt
    /\ last_error' = last_error
    /\ genCalls' = genCalls
    /\ execCalls' = execCalls
    /\ Len(Warnings') = Len(Warnings)
    /\ Len(ExhaustionReports') = 0

\* C15 as claimed: once an execution has returned a value, every later step
\* of the run leaves the attempt counter, the prior error and the call logs
\* alone, and the run ends in success.
C15_SuccessIsTerminal ==
    /\ [][ (ExecReturned /\ pc \notin {"Done", "Aborted"}) => StraightToSucceeded ]_vars
    /\ []((ExecReturned /\ pc = "Done") => success)

\* C15 amended: once an execution has returned a value that st.plotly_chart
\* accepts, every later step of the run leaves the attempt counter, the prior
\* error and the call logs alone, and the run ends in success; a returned
\* value that the renderer rejects is counted as a failed attempt.
C15_RenderedSuccessIsTerminal ==
    /\ [][ (ExecAccepted /\ pc \notin {"Done", "Aborted"}) => StraightToSucceeded ]_vars
    /\ []((ExecAccepted /\ pc = "Done") => success)
    /\ [][ (pc = "Rendering" /\ ~ExecAccepted) =>
              /\ attempt' = attempt + 1
              /\ last_error' = Str(plotly_chart(fig).exc)
              /\ ~success' ]_vars

\* success in the second attempt: the counter and the error of attempt 1 stay
C15_Witness ==
    /\ Succeeded
    /\ ExecAccepted
    /\ attempt = 1
    /\ last_error = Warnings[1].text
    /\ Len(genCalls) = 2

\* C16: the attempt counter stays within 0..max_retries; the loop starts with
\* the counter at 0 and no prior error; a generation step is entered only
\* below max_retries; the counter moves only by one, together with a failure
\* warning, or back to 0 when a run starts; the step that sets success leaves
\* it alone.
C16_AttemptCounter ==
    /\ [](attempt \in 0..max_retries)
    /\ [](pc = "Generating" => attempt < max_retries)
    /\ []((pc = "LoopTest" /\ Len(genCalls) = 0) => (attempt = 0 /\ last_error = None))
    /\ [][ \/ attempt' = attempt
           \/ /\ attempt' = attempt + 1
              /\ Len(Warnings') = Len(Warnings) + 1
              /\ ~success'
           \/ /\ attempt' = 0
              /\ pc \in {"Tab2", "Done", "Aborted"} ]_vars
    /\ [][ Len(Warnings') = Len(Warnings) + 1 => attempt' = attempt + 1 ]_vars
    /\ [][ (~success /\ success') => attempt' = attempt ]_vars

\* two failures, then success in the last attempt allowed
C16_Witness ==
    /\ Succeeded
    /\ attempt = max_retries - 1
    /\ Len(genCalls) = max_retries

\* C17: the code returned for a response never holds a triple backtick.
C17_NoFenceInCode ==
    stage = "returned" => ~Contains(cleaned, Fence)

\* a fence in the middle, a run of four backticks and a python-tagged fence
C17_Witness ==
    /\ stage = "returned"
    /\ raw = <<"x">> \o Fence \o <<BT>> \o <<"x">> \o PyFence
    /\ cleaned = <<"x", BT, "x">>

\* generation calls of the run that returned text
TextReplies ==
    Cardinality({ k \in 1..Len(modelCalls) : modelCalls[k].reply = "text" })

\* C18: an execution happens only at the executing position, on the code the
\* generation call of the same attempt has just returned, once per returned
\* code and never after a failed generation call; a generation call happens
\* only when every earlier attempt of the run has failed and the reason of the
\* last one is in last_error, which is what the call is given.
C18_StrictlySequential ==
    /\ [][ Len(execCalls') > Len(execCalls) =>
              /\ pc = "Executing"
              /\ execCalls' = Append(execCalls, code_to_run)
              /\ modelCalls[Len(modelCalls)].reply = "text"
              /\ TextReplies = Len(execCalls) + 1
              /\ attempt = Len(genCalls) - 1 ]_vars
    /\ [][ Len(genCalls') > Len(genCalls) =>
              /\ pc = "Generating"
              /\ genCalls' = Append(genCalls, [concept |-> concept, error_context |-> last_error])
              /\ attempt = Len(genCalls)
              /\ Len(Warnings) = Len(genCalls)
              /\ TextReplies = Len(execCalls)
              /\ Len(genCalls) > 0 => last_error = Warnings[Len(Warnings)].text ]_vars
    /\ [](/\ Len(modelCalls) = Len(genCalls)
          /\ Len(execCalls) <= TextReplies
          /\ TextReplies <= Len(execCalls) + 1)

\* attempt 2 failed in generation: three generation calls, two executions
C18_Witness ==
    /\ Len(genCalls) = 3
    /\ modelCalls[2].reply = "raise"
    /\ Len(execCalls) = 2

\* the run ended with one chart and the success message, and no exhaustion report
EndedInSuccess ==
    /\ Len(Charts) = 1
    /\ \E i \in 1..Len(ui) : ui[i].kind = "success"
    /\ Len(ExhaustionReports) = 0

\* the run ended with the exhaustion report, no chart and the counter at max_retries
EndedInExhaustion ==
    /\ Len(Charts) = 0
    /\ \A i \in 1..Len(ui) : ui[i].kind # "success"
    /\ Len(ExhaustionReports) = 1
    /\ attempt = max_retries

\* C19: a run that got past the button's guards and has ended shows exactly
\* one of the two ends.
C19_ExactlyOneEnd ==
    (pc \in {"Done", "Aborted"} /\ Admitted) =>
        /\ EndedInSuccess \/ EndedInExhaustion
        /\ ~(EndedInSuccess /\ EndedInExhaustion)

=============================================================================
